---- MODULE Spec2Model ----
(***************************************************************************)
(* Leave Management System: the in-memory store of db.py (employee leave   *)
(* balances, leave requests, the id counter) and the operations of        *)
(* main.py that drive it.                                                 *)
(*                                                                         *)
(* Python strings that the code transforms (employee ids, leave ids,      *)
(* leave types) are sequences of one-character strings, so that upper(),  *)
(* lower() and the f"L{n:03d}" format are computed, not assumed.  A date  *)
(* string "YYYY-MM-DD" is the triple <<Y, M, D>> of its fields.  Python's *)
(* None is the empty sequence and a present value x is <<x>>.  A raised    *)
(* ValueError is a record of its message and the values formatted into    *)
(* it.  The created_at and updated_at stamps of a record, which are reads *)
(* of the wall clock, are left out.                                       *)
(***************************************************************************)
EXTENDS Integers, Sequences, FiniteSets, TLC

\* ------------------------------------------------------------------ bounds

\* At most MaxLeaves leave requests are created (caps _leave_counter).
MaxLeaves == 2

\* ------------------------------------------------------------ str helpers

UpperChar(c) ==
    CASE c = "e" -> "E"
      [] c = "l" -> "L"
      [] c = "x" -> "X"
      [] OTHER -> c

LowerChar(c) ==
    CASE c = "P" -> "p"
      [] c = "M" -> "m"
      [] c = "B" -> "b"
      [] c = "E" -> "e"
      [] c = "L" -> "l"
      [] OTHER -> c

upper(s) == [i \in 1..Len(s) |-> UpperChar(s[i])]

lower(s) == [i \in 1..Len(s) |-> LowerChar(s[i])]

None == <<>>

Some(x) == <<x>>

\* ---------------------------------------------------------- employee store

E001 == <<"E", "0", "0", "1">>
E002 == <<"E", "0", "0", "2">>
E003 == <<"E", "0", "0", "3">>
E004 == <<"E", "0", "0", "4">>
E005 == <<"E", "0", "0", "5">>

casual == <<"c", "a", "s", "u", "a", "l">>
sick == <<"s", "i", "c", "k">>
annual == <<"a", "n", "n", "u", "a", "l">>
maternity == <<"m", "a", "t", "e", "r", "n", "i", "t", "y">>
paternity == <<"p", "a", "t", "e", "r", "n", "i", "t", "y">>

VALID_LEAVE_TYPES == {casual, sick, annual, maternity, paternity}

VALID_STATUSES == {"pending", "approved", "rejected", "cancelled"}

Balance(c, s, a, m, p) ==
    [t \in VALID_LEAVE_TYPES |->
        CASE t = casual -> c
          [] t = sick -> s
          [] t = annual -> a
          [] t = maternity -> m
          [] t = paternity -> p]

\* The seeded EMPLOYEES table: name and initial leave_balance of each employee.
EMPLOYEES ==
    [e \in {E001, E002, E003, E004, E005} |->
        CASE e = E001 -> [name |-> "Alice Johnson", leave_balance |-> Balance(10, 12, 20, 0, 5)]
          [] e = E002 -> [name |-> "Bob Smith", leave_balance |-> Balance(8, 10, 18, 0, 5)]
          [] e = E003 -> [name |-> "Carol Williams", leave_balance |-> Balance(10, 12, 25, 90, 0)]
          [] e = E004 -> [name |-> "David Brown", leave_balance |-> Balance(10, 12, 22, 0, 5)]
          [] e = E005 -> [name |-> "Eva Martinez", leave_balance |-> Balance(9, 11, 19, 90, 0)]]

\* ------------------------------------------------------------------ state

VARIABLES
    leave_balance,   \* EMPLOYEES[e]["leave_balance"][t], the mutable part of EMPLOYEES
    LEAVES,          \* the LEAVES dict, as its items in insertion order: <<key, record>>
    _leave_counter,  \* the module-level id counter
    last,            \* the call that ran last and what it returned or raised
    calls            \* per thread: the approve_leave_record call it is inside, if any

vars == <<leave_balance, LEAVES, _leave_counter, last, calls>>

\* ------------------------------------------------------------ dict helpers

\* dict.get(key): the value stored under key, or None.
DictGet(d, key) ==
    IF \E i \in 1..Len(d) : d[i][1] = key
    THEN Some(d[CHOOSE i \in 1..Len(d) : d[i][1] = key][2])
    ELSE None

\* d[key] = val: replaces the value in place if key is present, else appends.
DictSet(d, key, val) ==
    IF \E i \in 1..Len(d) : d[i][1] = key
    THEN [i \in 1..Len(d) |-> IF d[i][1] = key THEN <<key, val>> ELSE d[i]]
    ELSE Append(d, <<key, val>>)

\* dict.values(), in insertion order.
DictValues(d) == [i \in 1..Len(d) |-> d[i][2]]

\* ------------------------------------------------------------------ dates

IsLeap(y) == (y % 4 = 0) /\ ((y % 100 # 0) \/ (y % 400 = 0))

DaysInMonth(y, m) ==
    CASE m \in {1, 3, 5, 7, 8, 10, 12} -> 31
      [] m \in {4, 6, 9, 11} -> 30
      [] OTHER -> IF IsLeap(y) THEN 29 ELSE 28

RECURSIVE DaysBeforeMonth(_, _)
DaysBeforeMonth(y, m) ==
    IF m <= 1 THEN 0 ELSE DaysBeforeMonth(y, m - 1) + DaysInMonth(y, m - 1)

DaysBeforeYear(y) ==
    (y - 1) * 365 + ((y - 1) \div 4) - ((y - 1) \div 100) + ((y - 1) \div 400)

\* date.toordinal() of a valid date.
ToOrdinal(dt) == DaysBeforeYear(dt[1]) + DaysBeforeMonth(dt[1], dt[2]) + dt[3]

\* strptime(date_str, "%Y-%m-%d") accepts the fields of a real calendar date.
IsCalendarDate(dt) ==
    /\ dt[1] \in 1..9999
    /\ dt[2] \in 1..12
    /\ dt[3] \in 1..DaysInMonth(dt[1], dt[2])

\* _parse_date: the date (as its ordinal), or the ValueError strptime raises.
_parse_date(date_str) ==
    IF IsCalendarDate(date_str)
    THEN [err |-> None, date |-> ToOrdinal(date_str)]
    ELSE [err |-> Some([msg |-> "unparseable date", arg |-> date_str]), date |-> 0]

\* _count_days that counts the nights between the dates, not the days.
_count_days_Exclusive(start, end) ==
    LET s == _parse_date(start)
        e == _parse_date(end)
    IN  IF s.err # None THEN [err |-> s.err, days |-> 0]
        ELSE IF e.err # None THEN [err |-> e.err, days |-> 0]
        ELSE IF e.date < s.date
             THEN [err |-> Some([msg |-> "end_date must be on or after start_date",
                                 arg |-> <<start, end>>]),
                   days |-> 0]
        ELSE [err |-> None, days |-> e.date - s.date]

\* _count_days: the inclusive day count, or the ValueError raised.
_count_days(start, end) ==
    LET s == _parse_date(start)
        e == _parse_date(end)
    IN  IF s.err # None THEN [err |-> s.err, days |-> 0]
        ELSE IF e.err # None THEN [err |-> e.err, days |-> 0]
        ELSE IF e.date < s.date
             THEN [err |-> Some([msg |-> "end_date must be on or after start_date",
                                 arg |-> <<start, end>>]),
                   days |-> 0]
        ELSE [err |-> None, days |-> (e.date - s.date) + 1]

\* ------------------------------------------------------------ id generator

Digit(n) ==
    CASE n = 0 -> "0" [] n = 1 -> "1" [] n = 2 -> "2" [] n = 3 -> "3" [] n = 4 -> "4"
      [] n = 5 -> "5" [] n = 6 -> "6" [] n = 7 -> "7" [] n = 8 -> "8" [] n = 9 -> "9"

RECURSIVE Decimal(_)
Decimal(n) == IF n < 10 THEN <<Digit(n)>> ELSE Append(Decimal(n \div 10), Digit(n % 10))

RECURSIVE ZeroPad(_, _)
ZeroPad(s, width) == IF Len(s) >= width THEN s ELSE ZeroPad(<<"0">> \o s, width)

\* f"L{n:03d}"
FormatLeaveId(n) == <<"L">> \o ZeroPad(Decimal(n), 3)

\* _new_leave_id that forgets to advance the counter.
_new_leave_id_NoIncrement(counter) == [lid |-> FormatLeaveId(counter), counter |-> counter]

\* _new_leave_id: the id for the current counter value, and the counter after it.
_new_leave_id(counter) == [lid |-> FormatLeaveId(counter), counter |-> counter + 1]

\* ------------------------------------------------------------ leave helpers

\* The store the db functions read and write; they return the store after the call.
Store(bal, leaves, counter) ==
    [leave_balance |-> bal, LEAVES |-> leaves, _leave_counter |-> counter]

\* A function that raised: the store as the raise left it, and the ValueError.
Raise(S, msg, arg) == [store |-> S, err |-> Some([msg |-> msg, arg |-> arg]), ret |-> None]

\* A function that returned ret.
Return(S, ret) == [store |-> S, err |-> None, ret |-> Some(ret)]

\* emp["leave_balance"].get(leave_type, 0)
BalanceGet(bal, emp, leave_type) ==
    IF leave_type \in DOMAIN bal[emp] THEN bal[emp][leave_type] ELSE 0

\* The record create_leave builds for a request that passed its checks.
NewRecord(lid, emp, lt, start_date, end_date, days, reason) ==
    [leave_id |-> lid,
     employee_id |-> emp,
     employee_name |-> EMPLOYEES[emp].name,
     leave_type |-> lt,
     start_date |-> start_date,
     end_date |-> end_date,
     days |-> days,
     reason |-> reason,
     status |-> "pending",
     rejection_reason |-> None]

\* create_leave that stores the record before it checks the balance.
create_leave_StoreThenCheck(S, employee_id, leave_type, start_date, end_date, reason) ==
    LET emp == upper(employee_id)
        lt == lower(leave_type)
        cd == _count_days(start_date, end_date)
        balance == BalanceGet(S.leave_balance, emp, lt)
        new == _new_leave_id(S._leave_counter)
        record == NewRecord(new.lid, emp, lt, start_date, end_date, cd.days, reason)
        stored == Store(S.leave_balance, DictSet(S.LEAVES, new.lid, record), new.counter)
    IN  IF emp \notin DOMAIN EMPLOYEES
        THEN Raise(S, "Employee not found", employee_id)
        ELSE IF lt \notin VALID_LEAVE_TYPES
        THEN Raise(S, "Invalid leave type", lt)
        ELSE IF cd.err # None
        THEN [store |-> S, err |-> cd.err, ret |-> None]
        ELSE IF cd.days > balance
        THEN Raise(stored, "Insufficient leave balance", <<lt, cd.days, balance>>)
        ELSE Return(stored, record)

\* create_leave that refuses a request for exactly the remaining balance.
create_leave_StrictBalance(S, employee_id, leave_type, start_date, end_date, reason) ==
    LET emp == upper(employee_id)
        lt == lower(leave_type)
        cd == _count_days(start_date, end_date)
        balance == BalanceGet(S.leave_balance, emp, lt)
        new == _new_leave_id(S._leave_counter)
        record == NewRecord(new.lid, emp, lt, start_date, end_date, cd.days, reason)
    IN  IF emp \notin DOMAIN EMPLOYEES
        THEN Raise(S, "Employee not found", employee_id)
        ELSE IF lt \notin VALID_LEAVE_TYPES
        THEN Raise(S, "Invalid leave type", lt)
        ELSE IF cd.err # None
        THEN [store |-> S, err |-> cd.err, ret |-> None]
        ELSE IF cd.days >= balance
        THEN Raise(S, "Insufficient leave balance", <<lt, cd.days, balance>>)
        ELSE Return(Store(S.leave_balance,
                          DictSet(S.LEAVES, new.lid, record),
                          new.counter),
                    record)

\* create_leave that checks the leave type before it looks the employee up.
create_leave_TypeFirst(S, employee_id, leave_type, start_date, end_date, reason) ==
    LET emp == upper(employee_id)
        lt == lower(leave_type)
        cd == _count_days(start_date, end_date)
        balance == BalanceGet(S.leave_balance, emp, lt)
        new == _new_leave_id(S._leave_counter)
        record == NewRecord(new.lid, emp, lt, start_date, end_date, cd.days, reason)
    IN  IF lt \notin VALID_LEAVE_TYPES
        THEN Raise(S, "Invalid leave type", lt)
        ELSE IF emp \notin DOMAIN EMPLOYEES
        THEN Raise(S, "Employee not found", employee_id)
        ELSE IF cd.err # None
        THEN [store |-> S, err |-> cd.err, ret |-> None]
        ELSE IF cd.days > balance
        THEN Raise(S, "Insufficient leave balance", <<lt, cd.days, balance>>)
        ELSE Return(Store(S.leave_balance,
                          DictSet(S.LEAVES, new.lid, record),
                          new.counter),
                    record)

\* create_leave that takes the new id before its checks, so that a refused
\* submission has advanced the counter.
create_leave_IdBeforeChecks(S, employee_id, leave_type, start_date, end_date, reason) ==
    LET emp == upper(employee_id)
        lt == lower(leave_type)
        cd == _count_days(start_date, end_date)
        balance == BalanceGet(S.leave_balance, emp, lt)
        new == _new_leave_id(S._leave_counter)
        taken == Store(S.leave_balance, S.LEAVES, new.counter)
        record == NewRecord(new.lid, emp, lt, start_date, end_date, cd.days, reason)
    IN  IF emp \notin DOMAIN EMPLOYEES
        THEN Raise(taken, "Employee not found", employee_id)
        ELSE IF lt \notin VALID_LEAVE_TYPES
        THEN Raise(taken, "Invalid leave type", lt)
        ELSE IF cd.err # None
        THEN [store |-> taken, err |-> cd.err, ret |-> None]
        ELSE IF cd.days > balance
        THEN Raise(taken, "Insufficient leave balance", <<lt, cd.days, balance>>)
        ELSE Return(Store(S.leave_balance,
                          DictSet(S.LEAVES, new.lid, record),
                          new.counter),
                    record)

create_leave(S, employee_id, leave_type, start_date, end_date, reason) ==
    LET emp == upper(employee_id)
        lt == lower(leave_type)
        cd == _count_days(start_date, end_date)
        balance == BalanceGet(S.leave_balance, emp, lt)
        new == _new_leave_id(S._leave_counter)
        record == NewRecord(new.lid, emp, lt, start_date, end_date, cd.days, reason)
    IN  IF emp \notin DOMAIN EMPLOYEES
        THEN Raise(S, "Employee not found", employee_id)
        ELSE IF lt \notin VALID_LEAVE_TYPES
        THEN Raise(S, "Invalid leave type", lt)
        ELSE IF cd.err # None
        THEN [store |-> S, err |-> cd.err, ret |-> None]
        ELSE IF cd.days > balance
        THEN Raise(S, "Insufficient leave balance", <<lt, cd.days, balance>>)
        ELSE Return(Store(S.leave_balance,
                          DictSet(S.LEAVES, new.lid, record),
                          new.counter),
                    record)

get_leave(S, leave_id) == DictGet(S.LEAVES, upper(leave_id))

get_all_leaves(S) == DictValues(S.LEAVES)

get_pending_leaves(S) == SelectSeq(DictValues(S.LEAVES), LAMBDA l : l.status = "pending")

get_employee_leaves(S, employee_id) ==
    SelectSeq(DictValues(S.LEAVES), LAMBDA l : l.employee_id = upper(employee_id))

\* The update done by taking the record out of LEAVES and storing it again, which
\* moves it behind every other request.
Mutate_Reinsert(S, key, record, bal) ==
    Store(bal, Append(SelectSeq(S.LEAVES, LAMBDA kv : kv[1] # key), <<key, record>>),
          S._leave_counter)

\* The store after record (the dict stored under key) has been updated in place.
Mutate(S, key, record, bal) == Store(bal, DictSet(S.LEAVES, key, record), S._leave_counter)

\* approve_leave_record without its status check: any stored request is approved.
approve_leave_record_NoStatusCheck(S, leave_id) ==
    LET key == upper(leave_id)
        got == DictGet(S.LEAVES, key)
        record == got[1]
        bal == [S.leave_balance EXCEPT
                    ![record.employee_id][record.leave_type] = @ - record.days]
    IN  IF got = None
        THEN Raise(S, "Leave request not found", leave_id)
        ELSE Return(Mutate(S, key, [record EXCEPT !.status = "approved"], bal),
                    [record EXCEPT !.status = "approved"])

\* approve_leave_record that reports a missing request as one that is not pending.
approve_leave_record_MissingIsNotPending(S, leave_id) ==
    LET key == upper(leave_id)
        got == DictGet(S.LEAVES, key)
        record == got[1]
        bal == [S.leave_balance EXCEPT
                    ![record.employee_id][record.leave_type] = @ - record.days]
    IN  IF got = None \/ record.status # "pending"
        THEN Raise(S, "Only pending leaves can be approved",
                   <<leave_id, IF got = None THEN "missing" ELSE record.status>>)
        ELSE Return(Mutate(S, key, [record EXCEPT !.status = "approved"], bal),
                    [record EXCEPT !.status = "approved"])

\* approve_leave_record that refuses a debit the balance does not cover.
approve_leave_record_Guarded(S, leave_id) ==
    LET key == upper(leave_id)
        got == DictGet(S.LEAVES, key)
        record == got[1]
        emp == record.employee_id
        lt == record.leave_type
        bal == [S.leave_balance EXCEPT ![emp][lt] = @ - record.days]
    IN  IF got = None
        THEN Raise(S, "Leave request not found", leave_id)
        ELSE IF record.status # "pending"
        THEN Raise(S, "Only pending leaves can be approved", <<leave_id, record.status>>)
        ELSE IF record.days > BalanceGet(S.leave_balance, emp, lt)
        THEN Raise(S, "Insufficient leave balance",
                   <<lt, record.days, BalanceGet(S.leave_balance, emp, lt)>>)
        ELSE Return(Mutate(S, key, [record EXCEPT !.status = "approved"], bal),
                    [record EXCEPT !.status = "approved"])

approve_leave_record(S, leave_id) ==
    LET key == upper(leave_id)
        got == DictGet(S.LEAVES, key)
        record == got[1]
        emp == record.employee_id
        lt == record.leave_type
        bal == [S.leave_balance EXCEPT ![emp][lt] = @ - record.days]
    IN  IF got = None
        THEN Raise(S, "Leave request not found", leave_id)
        ELSE IF record.status # "pending"
        THEN Raise(S, "Only pending leaves can be approved", <<leave_id, record.status>>)
        ELSE Return(Mutate(S, key, [record EXCEPT !.status = "approved"], bal),
                    [record EXCEPT !.status = "approved"])

\* reject_leave_record that also rejects an approved request.
reject_leave_record_AlsoApproved(S, leave_id, rejection_reason) ==
    LET key == upper(leave_id)
        got == DictGet(S.LEAVES, key)
        record == got[1]
        rejected == [record EXCEPT !.status = "rejected",
                                   !.rejection_reason = Some(rejection_reason)]
    IN  IF got = None
        THEN Raise(S, "Leave request not found", leave_id)
        ELSE IF record.status \notin {"pending", "approved"}
        THEN Raise(S, "Only pending leaves can be rejected", <<leave_id, record.status>>)
        ELSE Return(Mutate(S, key, rejected, S.leave_balance), rejected)

reject_leave_record(S, leave_id, rejection_reason) ==
    LET key == upper(leave_id)
        got == DictGet(S.LEAVES, key)
        record == got[1]
        rejected == [record EXCEPT !.status = "rejected",
                                   !.rejection_reason = Some(rejection_reason)]
    IN  IF got = None
        THEN Raise(S, "Leave request not found", leave_id)
        ELSE IF record.status # "pending"
        THEN Raise(S, "Only pending leaves can be rejected", <<leave_id, record.status>>)
        ELSE Return(Mutate(S, key, rejected, S.leave_balance), rejected)

\* cancel_leave_record that restores no balance.
cancel_leave_record_NoCredit(S, leave_id) ==
    LET key == upper(leave_id)
        got == DictGet(S.LEAVES, key)
        record == got[1]
    IN  IF got = None
        THEN Raise(S, "Leave request not found", leave_id)
        ELSE IF record.status \notin {"pending", "approved"}
        THEN Raise(S, "cannot be cancelled", <<leave_id, record.status>>)
        ELSE Return(Mutate(S, key, [record EXCEPT !.status = "cancelled"], S.leave_balance),
                    [record EXCEPT !.status = "cancelled"])

\* cancel_leave_record without its status check: a rejected request is cancelled too.
cancel_leave_record_NoStatusCheck(S, leave_id) ==
    LET key == upper(leave_id)
        got == DictGet(S.LEAVES, key)
        record == got[1]
        bal == IF record.status = "approved"
               THEN [S.leave_balance EXCEPT
                        ![record.employee_id][record.leave_type] = @ + record.days]
               ELSE S.leave_balance
    IN  IF got = None
        THEN Raise(S, "Leave request not found", leave_id)
        ELSE Return(Mutate(S, key, [record EXCEPT !.status = "cancelled"], bal),
                    [record EXCEPT !.status = "cancelled"])

\* cancel_leave_record that restores the days whatever the status was.
cancel_leave_record_AlwaysCredit(S, leave_id) ==
    LET key == upper(leave_id)
        got == DictGet(S.LEAVES, key)
        record == got[1]
        bal == [S.leave_balance EXCEPT
                    ![record.employee_id][record.leave_type] = @ + record.days]
    IN  IF got = None
        THEN Raise(S, "Leave request not found", leave_id)
        ELSE IF record.status \notin {"pending", "approved"}
        THEN Raise(S, "cannot be cancelled", <<leave_id, record.status>>)
        ELSE Return(Mutate(S, key, [record EXCEPT !.status = "cancelled"], bal),
                    [record EXCEPT !.status = "cancelled"])

\* cancel_leave_record that also sets the days of the cancelled request to 0.
cancel_leave_record_ZeroesDays(S, leave_id) ==
    LET key == upper(leave_id)
        got == DictGet(S.LEAVES, key)
        record == got[1]
        bal == IF record.status = "approved"
               THEN [S.leave_balance EXCEPT
                        ![record.employee_id][record.leave_type] = @ + record.days]
               ELSE S.leave_balance
    IN  IF got = None
        THEN Raise(S, "Leave request not found", leave_id)
        ELSE IF record.status \notin {"pending", "approved"}
        THEN Raise(S, "cannot be cancelled", <<leave_id, record.status>>)
        ELSE Return(Mutate(S, key, [record EXCEPT !.status = "cancelled", !.days = 0], bal),
                    [record EXCEPT !.status = "cancelled", !.days = 0])

cancel_leave_record(S, leave_id) ==
    LET key == upper(leave_id)
        got == DictGet(S.LEAVES, key)
        record == got[1]
        emp == record.employee_id
        lt == record.leave_type
        bal == IF record.status = "approved"
               THEN [S.leave_balance EXCEPT ![emp][lt] = @ + record.days]
               ELSE S.leave_balance
    IN  IF got = None
        THEN Raise(S, "Leave request not found", leave_id)
        ELSE IF record.status \notin {"pending", "approved"}
        THEN Raise(S, "cannot be cancelled", <<leave_id, record.status>>)
        ELSE Return(Mutate(S, key, [record EXCEPT !.status = "cancelled"], bal),
                    [record EXCEPT !.status = "cancelled"])

\* ------------------------------------------------------------------ inputs

\* Employee ids the tools are called with: known, known in lower case, unknown.
EmployeeIdInputs == {E001, <<"e", "0", "0", "2">>, <<"E", "9", "9", "9">>}

\* Leave types the tools are called with: valid in mixed case, valid with a zero
\* balance, and not in VALID_LEAVE_TYPES.
LeaveTypeInputs ==
    {<<"P", "a", "t", "e", "r", "n", "i", "t", "y">>, maternity, <<"b", "o", "g", "u", "s">>}

\* (start_date, end_date) pairs over 2026-02-27, 2026-03-02 and the date string
\* 2026-02-30: one day, four days across the end of February, end before start,
\* and an end or a start that is no calendar date.
DateRangeInputs ==
    {<<<<2026, 2, 27>>, <<2026, 2, 27>>>>,
     <<<<2026, 2, 27>>, <<2026, 3, 2>>>>,
     <<<<2026, 3, 2>>, <<2026, 2, 27>>>>,
     <<<<2026, 2, 27>>, <<2026, 2, 30>>>>,
     <<<<2026, 2, 30>>, <<2026, 3, 2>>>>}

ReasonInputs == {"family function"}

RejectionReasonInputs == {"project deadline"}

\* Leave ids: every id the counter can have issued, one of them in lower case, and L999.
LeaveIdInputs ==
    {FormatLeaveId(n) : n \in 1..MaxLeaves} \cup {<<"l", "0", "0", "1">>, <<"L", "9", "9", "9">>}

\* What the reading tools are asked for: the first id in lower case and an id
\* that is never issued; a known employee in lower case and an unknown one.
ReadLeaveIdInputs == {<<"l", "0", "0", "1">>, <<"L", "9", "9", "9">>}

ReadEmployeeIdInputs == {<<"e", "0", "0", "2">>, <<"E", "9", "9", "9">>}

\* ------------------------------------------------------------------- tools

\* The threads that may be inside approve_leave_record at the same time.
Threads == {"t1", "t2"}

\* A thread that is in no call: pc is the line of approve_leave_record the
\* thread executes next, and key, loaded, err, ret are its locals and its result.
NoCall == [pc |-> "idle", leave_id |-> <<>>, key |-> <<>>, loaded |-> 0,
           err |-> None, ret |-> None]

Current == Store(leave_balance, LEAVES, _leave_counter)

\* The module-level state becomes the store the db call left. A tool function
\* runs from its first line to its return without another call in between, so
\* no call is left in progress.
Commit(S) ==
    /\ leave_balance' = S.leave_balance
    /\ LEAVES' = S.LEAVES
    /\ _leave_counter' = S._leave_counter
    /\ UNCHANGED calls

\* What last records of a call: the tool, its arguments, what the db function
\* raised or returned (was_approved is cancel_leave's local, FALSE elsewhere).
Outcome(op, args, r, was_approved) ==
    [op |-> op, args |-> args, err |-> r.err, ret |-> r.ret, was_approved |-> was_approved]

apply_leave(employee_id, leave_type, start_date, end_date, reason) ==
    /\ _leave_counter <= MaxLeaves
    /\ \E r \in {create_leave(Current, employee_id, leave_type, start_date, end_date, reason)} :
          /\ Commit(r.store)
          /\ last' = Outcome("apply_leave",
                             <<employee_id, leave_type, start_date, end_date, reason>>,
                             r, FALSE)

approve_leave(leave_id) ==
    \E r \in {approve_leave_record(Current, leave_id)} :
        /\ Commit(r.store)
        /\ last' = Outcome("approve_leave", <<leave_id>>, r, FALSE)

reject_leave(leave_id, rejection_reason) ==
    \E r \in {reject_leave_record(Current, leave_id, rejection_reason)} :
        /\ Commit(r.store)
        /\ last' = Outcome("reject_leave", <<leave_id, rejection_reason>>, r, FALSE)

cancel_leave(leave_id) ==
    \E record \in {get_leave(Current, leave_id)} :
        \E r \in {IF record = None
                  THEN Raise(Current, "Leave request not found", leave_id)
                  ELSE cancel_leave_record(Current, leave_id)} :
            /\ Commit(r.store)
            /\ last' = Outcome("cancel_leave", <<leave_id>>, r,
                               record # None /\ record[1].status = "approved")

\* find_employee(employee_id=...): the tools below pass no name, so the search
\* by name is never entered. An empty id is falsy and finds nobody.
find_employee(S, employee_id) ==
    IF employee_id # <<>> /\ upper(employee_id) \in DOMAIN EMPLOYEES
    THEN Some([id |-> upper(employee_id),
               name |-> EMPLOYEES[upper(employee_id)].name,
               leave_balance |-> S.leave_balance[upper(employee_id)]])
    ELSE None

\* get_leave_status that takes the record out of LEAVES (LEAVES.pop) to read it.
get_leave_status_Pops(leave_id) ==
    \E record \in {get_leave(Current, leave_id)} :
        \E r \in {IF record = None
                  THEN Raise(Current, "Leave request not found", leave_id)
                  ELSE Return(Store(leave_balance,
                                    SelectSeq(LEAVES, LAMBDA kv : kv[1] # upper(leave_id)),
                                    _leave_counter),
                              record[1])} :
            /\ Commit(r.store)
            /\ last' = Outcome("get_leave_status", <<leave_id>>, r, FALSE)

get_leave_status(leave_id) ==
    \E record \in {get_leave(Current, leave_id)} :
        \E r \in {IF record = None
                  THEN Raise(Current, "Leave request not found", leave_id)
                  ELSE Return(Current, record[1])} :
            /\ Commit(r.store)
            /\ last' = Outcome("get_leave_status", <<leave_id>>, r, FALSE)

get_leave_balance(employee_id) ==
    \E emp \in {find_employee(Current, employee_id)} :
        \E r \in {IF emp = None
                  THEN Raise(Current, "Employee not found", employee_id)
                  ELSE Return(Current, emp[1].leave_balance)} :
            /\ Commit(r.store)
            /\ last' = Outcome("get_leave_balance", <<employee_id>>, r, FALSE)

list_pending_leaves ==
    \E r \in {Return(Current, get_pending_leaves(Current))} :
        /\ Commit(r.store)
        /\ last' = Outcome("list_pending_leaves", <<>>, r, FALSE)

list_employee_leaves(employee_id) ==
    \E emp \in {find_employee(Current, employee_id)} :
        \E r \in {IF emp = None
                  THEN Raise(Current, "Employee not found", employee_id)
                  ELSE Return(Current, get_employee_leaves(Current, employee_id))} :
            /\ Commit(r.store)
            /\ last' = Outcome("list_employee_leaves", <<employee_id>>, r, FALSE)

Init ==
    /\ leave_balance = [e \in DOMAIN EMPLOYEES |-> EMPLOYEES[e].leave_balance]
    /\ LEAVES = <<>>
    /\ _leave_counter = 1
    /\ last = [op |-> "init", args |-> <<>>, err |-> None, ret |-> None,
               was_approved |-> FALSE]
    /\ calls = [t \in Threads |-> NoCall]

Next ==
    \/ \E e \in EmployeeIdInputs, t \in LeaveTypeInputs, d \in DateRangeInputs,
          r \in ReasonInputs : apply_leave(e, t, d[1], d[2], r)
    \/ \E id \in LeaveIdInputs : approve_leave(id)
    \/ \E id \in LeaveIdInputs, rr \in RejectionReasonInputs : reject_leave(id, rr)
    \/ \E id \in LeaveIdInputs : cancel_leave(id)
    \/ \E id \in ReadLeaveIdInputs : get_leave_status(id)
    \/ \E e \in ReadEmployeeIdInputs : get_leave_balance(e)
    \/ list_pending_leaves
    \/ \E e \in ReadEmployeeIdInputs : list_employee_leaves(e)

Spec == Init /\ [][Next]_vars

\* ------------------------------------- approve_leave_record, line by line

\* The tool functions take no lock and db.py keeps its state in module globals,
\* so two threads that are both inside approve_leave_record interleave between
\* its statements. The steps below are those statements; last is left alone
\* and each thread keeps its own result in calls.

\* The ids the two threads approve: one stored request, in either case.
RaceIdInputs == {FormatLeaveId(1), <<"l", "0", "0", "1">>}

\* The record a thread holds a reference to.
HeldRecord(t) == DictGet(LEAVES, calls[t].key)[1]

\* record = LEAVES.get(leave_id.upper()) and the two checks that raise.
approve_check(t, leave_id) ==
    /\ calls[t].pc = "idle"
    /\ \E r \in {approve_leave_record(Current, leave_id)} :
          calls' = [calls EXCEPT ![t] =
                       IF r.err # None
                       THEN [NoCall EXCEPT !.pc = "done", !.leave_id = leave_id,
                                           !.key = upper(leave_id), !.err = r.err]
                       ELSE [NoCall EXCEPT !.pc = "load", !.leave_id = leave_id,
                                           !.key = upper(leave_id)]]
    /\ UNCHANGED <<leave_balance, LEAVES, _leave_counter, last>>

\* The read half of emp["leave_balance"][leave_type] -= record["days"].
approve_load(t) ==
    /\ calls[t].pc = "load"
    /\ calls' = [calls EXCEPT ![t].pc = "store",
                              ![t].loaded = BalanceGet(leave_balance,
                                                       HeldRecord(t).employee_id,
                                                       HeldRecord(t).leave_type)]
    /\ UNCHANGED <<leave_balance, LEAVES, _leave_counter, last>>

\* The write half of the same statement.
approve_store(t) ==
    /\ calls[t].pc = "store"
    /\ leave_balance' = [leave_balance EXCEPT
                            ![HeldRecord(t).employee_id][HeldRecord(t).leave_type] =
                                calls[t].loaded - HeldRecord(t).days]
    /\ calls' = [calls EXCEPT ![t].pc = "status"]
    /\ UNCHANGED <<LEAVES, _leave_counter, last>>

\* record["status"] = "approved" and the return.
approve_set_status(t) ==
    /\ calls[t].pc = "status"
    /\ LEAVES' = DictSet(LEAVES, calls[t].key, [HeldRecord(t) EXCEPT !.status = "approved"])
    /\ calls' = [calls EXCEPT ![t].pc = "done",
                              ![t].ret = Some([HeldRecord(t) EXCEPT !.status = "approved"])]
    /\ UNCHANGED <<leave_balance, _leave_counter, last>>

\* Requests are submitted before the threads start.
apply_leave_before_threads(employee_id, leave_type, start_date, end_date, reason) ==
    /\ \A t \in Threads : calls[t].pc = "idle"
    /\ apply_leave(employee_id, leave_type, start_date, end_date, reason)

NextThreads ==
    \/ \E e \in EmployeeIdInputs, t \in LeaveTypeInputs, d \in DateRangeInputs,
          r \in ReasonInputs : apply_leave_before_threads(e, t, d[1], d[2], r)
    \/ \E t \in Threads, id \in RaceIdInputs : approve_check(t, id)
    \/ \E t \in Threads : approve_load(t)
    \/ \E t \in Threads : approve_store(t)
    \/ \E t \in Threads : approve_set_status(t)

SpecThreads == Init /\ [][NextThreads]_vars

\* ------------------------------------------------------- reading outcomes

\* The last call was the tool op and it returned normally.
Succeeded(l, op) == l.op = op /\ l.err = None

\* The last call was the tool op and the db function raised a ValueError.
Failed(l, op) == l.op = op /\ l.err # None

\* The error kinds of the design, read off the message of the ValueError.
ErrorKind(err) ==
    CASE err.msg \in {"Employee not found", "Leave request not found"} -> "NotFound"
      [] err.msg \in {"Invalid leave type", "end_date must be on or after start_date",
                      "unparseable date"} -> "ValidationError"
      [] err.msg = "Insufficient leave balance" -> "InsufficientBalance"
      [] err.msg \in {"Only pending leaves can be approved",
                      "Only pending leaves can be rejected",
                      "cannot be cancelled"} -> "InvalidTransition"

\* The record stored under the (normalised) leave id in store S.
RecordOf(S, leave_id) == get_leave(S, leave_id)[1]

InitialBalance == [e \in DOMAIN EMPLOYEES |-> EMPLOYEES[e].leave_balance]

\* ------------------------------------------------------------------ claims

\* C1: in every reachable state every employee's balance for every leave type
\* is >= 0.
C1_BalanceNonNegative ==
    \A e \in DOMAIN leave_balance : \A t \in DOMAIN leave_balance[e] :
        leave_balance[e][t] >= 0

\* C2: whenever a pending request has just been approved, cancelling it leaves
\* the balance of its employee and leave type (and every other balance) equal to
\* the balance before the approval, and the request ends cancelled.
C2_ApproveThenCancel ==
    [][Succeeded(last', "approve_leave") =>
          LET id == last'.args[1]
              r == cancel_leave_record(Current', id)
          IN  /\ RecordOf(Current, id).status = "pending"
              /\ r.err = None
              /\ r.store.leave_balance = leave_balance
              /\ RecordOf(r.store, id).status = "cancelled"]_vars

\* C2 witness: an approved request has been cancelled and the balances are back
\* at their initial values.
C2_Witness ==
    /\ Succeeded(last, "cancel_leave")
    /\ last.was_approved
    /\ last.ret[1].days = 4
    /\ leave_balance = InitialBalance

\* The tools that move a request through its lifecycle.
TransitionTools == {"approve_leave", "reject_leave", "cancel_leave"}

\* The statuses from which a tool's transition is legal.
LegalFrom(op) == IF op = "cancel_leave" THEN {"pending", "approved"} ELSE {"pending"}

\* The call raised an InvalidTransition that names status st and changed nothing.
RefusedAt(l, st) ==
    /\ l.err # None
    /\ ErrorKind(l.err[1]) = "InvalidTransition"
    /\ l.err[1].arg[2] = st

\* C3: a successful approve debits exactly the request's days, and approving the
\* same id again fails with InvalidTransition and changes neither the balances
\* nor the records; likewise a second cancel fails and credits nothing.
C3_NoDoubleEffect ==
    [][/\ Succeeded(last', "approve_leave") =>
            LET id == last'.args[1]
                rec == RecordOf(Current, id)
                again == approve_leave_record(Current', id)
            IN  /\ leave_balance' =
                       [leave_balance EXCEPT ![rec.employee_id][rec.leave_type] = @ - rec.days]
                /\ RefusedAt(again, "approved")
                /\ again.store = Current'
       /\ Succeeded(last', "cancel_leave") =>
            LET again == cancel_leave_record(Current', last'.args[1])
            IN  /\ RefusedAt(again, "cancelled")
                /\ again.store = Current'
       /\ last'.op \in {"approve_leave", "cancel_leave"} =>
            \A id \in {last'.args[1]} : \A got \in {get_leave(Current, id)} :
                /\ got # None
                /\ \/ last'.op = "approve_leave" /\ got[1].status = "approved"
                   \/ last'.op = "cancel_leave" /\ got[1].status = "cancelled"
                => /\ RefusedAt(last', got[1].status)
                   /\ UNCHANGED <<leave_balance, LEAVES, _leave_counter>>]_vars

\* C3 witness: an approved four-day request was approved a second time, the call
\* was refused, and the balance stands at the initial 5 minus 4.
C3_Witness ==
    /\ Failed(last, "approve_leave")
    /\ RefusedAt(last, "approved")
    /\ LET rec == RecordOf(Current, last.args[1])
       IN  /\ rec.days = 4
           /\ leave_balance[rec.employee_id][rec.leave_type] = 1

\* C4: on a stored request, approve and reject succeed iff its status is pending
\* and cancel succeeds iff it is pending or approved; every other call fails with
\* an InvalidTransition naming the current status and changes no record, no
\* balance and not the counter.
C4_TransitionClosure ==
    [][last'.op \in TransitionTools /\ get_leave(Current, last'.args[1]) # None =>
          LET st == RecordOf(Current, last'.args[1]).status
          IN  /\ (last'.err = None) <=> (st \in LegalFrom(last'.op))
              /\ last'.err # None =>
                    /\ RefusedAt(last', st)
                    /\ UNCHANGED <<leave_balance, LEAVES, _leave_counter>>]_vars

\* C4 witness: a reject was refused on an approved request.
C4_Witness ==
    /\ Failed(last, "reject_leave")
    /\ RefusedAt(last, "approved")
    /\ RecordOf(Current, last.args[1]).status = "approved"

\* The only status changes a request ever makes.
StatusMoves ==
    {<<"pending", "approved">>, <<"pending", "rejected">>,
     <<"pending", "cancelled">>, <<"approved", "cancelled">>}

\* C5: in every step every stored request stays stored under its key, and its
\* status either stays or moves along pending -> approved | rejected | cancelled
\* or approved -> cancelled.
C5_StatusMonotonic ==
    [][/\ Len(LEAVES') >= Len(LEAVES)
       /\ \A i \in 1..Len(LEAVES) :
            /\ LEAVES'[i][1] = LEAVES[i][1]
            /\ \/ LEAVES'[i][2].status = LEAVES[i][2].status
               \/ <<LEAVES[i][2].status, LEAVES'[i][2].status>> \in StatusMoves]_vars

\* C5 witness: with one request rejected and another cancelled, a further
\* transition was attempted on one of them.
C5_Witness ==
    /\ \E i, j \in 1..Len(LEAVES) :
          LEAVES[i][2].status = "rejected" /\ LEAVES[j][2].status = "cancelled"
    /\ last.op \in TransitionTools
    /\ get_leave(Current, last.args[1]) # None
    /\ last.err # None

\* C6: an approve of a pending request whose days exceed the current balance of
\* its employee and leave type fails with InsufficientBalance and changes neither
\* the balances nor the records.
C6_ApproveGuardsBalance ==
    [][\A id \in LeaveIdInputs :
          /\ last'.op = "approve_leave"
          /\ last'.args[1] = id
          /\ get_leave(Current, id) # None
          /\ RecordOf(Current, id).status = "pending"
          /\ RecordOf(Current, id).days >
                 leave_balance[RecordOf(Current, id).employee_id][RecordOf(Current, id).leave_type]
          => /\ last'.err # None
             /\ ErrorKind(last'.err[1]) = "InsufficientBalance"
             /\ UNCHANGED <<leave_balance, LEAVES, _leave_counter>>]_vars

\* C7: a submission that fails leaves the stored requests, the balances and the
\* id counter exactly as they were.
C7_FailedSubmitChangesNothing ==
    [][Failed(last', "apply_leave") =>
          UNCHANGED <<leave_balance, LEAVES, _leave_counter>>]_vars

\* C7 witness: with a request stored and approved, a submission failed on the
\* balance check.
C7_Witness ==
    /\ Failed(last, "apply_leave")
    /\ ErrorKind(last.err[1]) = "InsufficientBalance"
    /\ Len(LEAVES) = 1
    /\ LEAVES[1][2].status = "approved"

\* The four guards of a submission, as the design words them.
EmployeeExists(employee_id) == \E e \in DOMAIN EMPLOYEES : e = upper(employee_id)

LeaveTypeValid(leave_type) == \E t \in VALID_LEAVE_TYPES : t = lower(leave_type)

DatesOrdered(start_date, end_date) ==
    /\ IsCalendarDate(start_date)
    /\ IsCalendarDate(end_date)
    /\ ToOrdinal(end_date) >= ToOrdinal(start_date)

SpanDays(start_date, end_date) == ToOrdinal(end_date) - ToOrdinal(start_date) + 1

BalanceSuffices(bal, employee_id, leave_type, start_date, end_date) ==
    SpanDays(start_date, end_date) <= bal[upper(employee_id)][lower(leave_type)]

\* C8: a submission succeeds exactly when the employee exists, the leave type is
\* valid, the dates are ordered and the days are within the current balance; a
\* successful one appends exactly one record, pending and with no rejection
\* reason, keeps every stored record and leaves every balance unchanged.
C8_SubmitGuardsAndFrame ==
    [][last'.op = "apply_leave" =>
          LET a == last'.args
              n == Len(LEAVES)
          IN  /\ (last'.err = None) <=>
                    /\ EmployeeExists(a[1])
                    /\ LeaveTypeValid(a[2])
                    /\ DatesOrdered(a[3], a[4])
                    /\ BalanceSuffices(leave_balance, a[1], a[2], a[3], a[4])
              /\ last'.err = None =>
                    /\ Len(LEAVES') = n + 1
                    /\ SubSeq(LEAVES', 1, n) = LEAVES
                    /\ LEAVES'[n + 1][2].status = "pending"
                    /\ LEAVES'[n + 1][2].rejection_reason = None
                    /\ LEAVES'[n + 1][2] = last'.ret[1]
                    /\ leave_balance' = leave_balance]_vars

\* C8 witness: after an approval took the balance from 5 to 4, a request for
\* exactly the remaining 4 days was accepted and the balance is still 4.
C8_Witness ==
    /\ Succeeded(last, "apply_leave")
    /\ Len(LEAVES) = 2
    /\ LEAVES[1][2].status = "approved"
    /\ LEAVES[2][2].days = 4
    /\ LEAVES[2][2].status = "pending"
    /\ LEAVES[2][2].employee_id = LEAVES[1][2].employee_id
    /\ leave_balance[LEAVES[2][2].employee_id][LEAVES[2][2].leave_type] = 4

\* The balances after a transition tool ran on store S with outcome l: a
\* successful approve takes the request's days from its (employee, leave type)
\* entry, a successful cancel of an approved request gives them back, and nothing
\* else changes anything.
LedgerAfter(S, l) ==
    LET rec == RecordOf(S, l.args[1])
    IN  IF Succeeded(l, "approve_leave")
        THEN [S.leave_balance EXCEPT ![rec.employee_id][rec.leave_type] = @ - rec.days]
        ELSE IF Succeeded(l, "cancel_leave") /\ rec.status = "approved"
        THEN [S.leave_balance EXCEPT ![rec.employee_id][rec.leave_type] = @ + rec.days]
        ELSE S.leave_balance

\* C9: the balances change only by a successful approve (minus the request's
\* days on its own entry) and a successful cancel of an approved request (plus
\* those days on the same entry); reject, cancel of a pending request and every
\* failed call leave all balances unchanged.
C9_LedgerFrame ==
    [][leave_balance' = IF last'.op \in TransitionTools
                        THEN LedgerAfter(Current, last')
                        ELSE leave_balance]_vars

\* C9 witness: a pending request of an employee who has another, approved
\* request was cancelled, and only the approved one is missing from the balance.
C9_Witness ==
    /\ Succeeded(last, "cancel_leave")
    /\ ~last.was_approved
    /\ \E i \in 1..Len(LEAVES) :
          /\ LEAVES[i][2].status = "approved"
          /\ LEAVES[i][2].employee_id = last.ret[1].employee_id
          /\ leave_balance[LEAVES[i][2].employee_id][LEAVES[i][2].leave_type] =
                 5 - LEAVES[i][2].days

\* The message of the first check a submission fails, in the order employee,
\* leave type, dates, balance; "" when it passes them all.
FirstFailure(bal, a) ==
    IF ~EmployeeExists(a[1]) THEN "Employee not found"
    ELSE IF ~LeaveTypeValid(a[2]) THEN "Invalid leave type"
    ELSE IF ~IsCalendarDate(a[3]) \/ ~IsCalendarDate(a[4]) THEN "unparseable date"
    ELSE IF ~DatesOrdered(a[3], a[4]) THEN "end_date must be on or after start_date"
    ELSE IF ~BalanceSuffices(bal, a[1], a[2], a[3], a[4]) THEN "Insufficient leave balance"
    ELSE ""

\* C10: a failed submission reports the first failing check in the order
\* (1) employee, (2) leave type, (3) dates, (4) balance, and the four reports
\* differ from one another.
C10_FirstFailingCheckWins ==
    [][Failed(last', "apply_leave") =>
          last'.err[1].msg = FirstFailure(leave_balance, last'.args)]_vars

\* C10 witness: a submission with an unknown employee, an invalid leave type and
\* an end date before the start date was refused for the employee.
C10_Witness ==
    /\ Failed(last, "apply_leave")
    /\ ~EmployeeExists(last.args[1])
    /\ ~LeaveTypeValid(last.args[2])
    /\ IsCalendarDate(last.args[3]) /\ IsCalendarDate(last.args[4])
    /\ ~DatesOrdered(last.args[3], last.args[4])
    /\ last.err[1].msg = "Employee not found"

\* C11: when two approve calls on the same request, pending when both started,
\* have both run through approve_leave_record on two threads, exactly one of
\* them returned, the other raised with the kind InvalidTransition, and the
\* balance of the request's employee and leave type went down by the request's
\* days once.
C11_ConcurrentApproveOnce ==
    (/\ \A t \in Threads : calls[t].pc = "done"
     /\ \A t \in Threads : DictGet(LEAVES, calls[t].key) # None)
    => /\ \E w \in Threads :
             /\ calls[w].err = None
             /\ \A o \in Threads \ {w} :
                   /\ calls[o].err # None
                   /\ ErrorKind(calls[o].err[1]) = "InvalidTransition"
       /\ \A t \in Threads :
             BalanceGet(leave_balance, HeldRecord(t).employee_id, HeldRecord(t).leave_type)
                 = BalanceGet(InitialBalance, HeldRecord(t).employee_id,
                              HeldRecord(t).leave_type) - HeldRecord(t).days

\* The value of a decimal digit character, and the number a leave id carries
\* after its "L".
DigitValue(c) ==
    CASE c = "0" -> 0 [] c = "1" -> 1 [] c = "2" -> 2 [] c = "3" -> 3 [] c = "4" -> 4
      [] c = "5" -> 5 [] c = "6" -> 6 [] c = "7" -> 7 [] c = "8" -> 8 [] c = "9" -> 9

RECURSIVE DigitsValue(_)
DigitsValue(s) ==
    IF s = <<>> THEN 0 ELSE 10 * DigitsValue(SubSeq(s, 1, Len(s) - 1)) + DigitValue(s[Len(s)])

LeaveNumber(leave_id) == DigitsValue(Tail(leave_id))

\* The stored requests, oldest first.
Stored == DictValues(LEAVES)

\* C12: the ids of the stored requests are pairwise different and grow in the
\* order the requests were created, and every id issued so far is below the
\* one the counter will issue next, so no id is issued a second time, whatever
\* calls (failed ones included) ran in between.
C12_IdsUniqueAndIncreasing ==
    /\ \A i, j \in 1..Len(Stored) :
          i < j => /\ Stored[i].leave_id # Stored[j].leave_id
                   /\ LeaveNumber(Stored[i].leave_id) < LeaveNumber(Stored[j].leave_id)
    /\ \A i \in 1..Len(Stored) : LeaveNumber(Stored[i].leave_id) < _leave_counter

\* Two requests are stored, the second created after the first had been
\* approved and cancelled.
C12_Witness ==
    /\ Succeeded(last, "apply_leave")
    /\ Len(Stored) = 2
    /\ Stored[1].status = "cancelled"
    /\ Stored[2].leave_id = FormatLeaveId(2)

\* The tools that take a leave id as their first argument.
LeaveIdTools == {"get_leave_status", "approve_leave", "reject_leave", "cancel_leave"}

\* The counter has not reached the number of this id: it was never issued.
NeverAssigned(leave_id) == LeaveNumber(leave_id) >= _leave_counter

\* C13: a call of get_leave_status, approve_leave, reject_leave or cancel_leave
\* with an id that was never issued returns no record, fails with the kind
\* NotFound, and leaves the records, the balances and the counter unchanged.
C13_UnknownIdNotFound ==
    [][\A l \in {last'} :
          (l.op \in LeaveIdTools /\ NeverAssigned(l.args[1]))
          => /\ l.ret = None
             /\ l.err # None
             /\ ErrorKind(l.err[1]) = "NotFound"
             /\ l.err[1].arg = l.args[1]
             /\ UNCHANGED <<leave_balance, LEAVES, _leave_counter>>]_vars

\* reject_leave was called with an id the counter had not reached while another
\* request was stored.
C13_Witness ==
    /\ Failed(last, "reject_leave")
    /\ NeverAssigned(last.args[1])
    /\ Len(Stored) = 1
    /\ ErrorKind(last.err[1]) = "NotFound"

\* The tools that only read.
ReadTools == {"get_leave_status", "get_leave_balance", "list_pending_leaves",
              "list_employee_leaves"}

\* C14: a call of get_leave_status, get_leave_balance, list_pending_leaves or
\* list_employee_leaves, whether its argument exists or not, leaves the records,
\* the balances and the counter as they were.
C14_ReadsChangeNothing ==
    [][last'.op \in ReadTools
       => UNCHANGED <<leave_balance, LEAVES, _leave_counter>>]_vars

\* get_leave_status has returned a stored request that is approved.
C14_Witness ==
    /\ Succeeded(last, "get_leave_status")
    /\ last.ret[1].status = "approved"
    /\ last.ret[1] = RecordOf(Current, last.args[1])

\* The positions of all that satisfy P, and the k-th of them from the front.
Positions(all, P(_)) == {i \in 1..Len(all) : P(all[i])}

Nth(idx, k) == CHOOSE i \in idx : Cardinality({j \in idx : j < i}) = k - 1

\* result holds exactly the elements of all that satisfy P, each once, in the
\* order they have in all.
IsFilterInOrder(result, all, P(_)) ==
    /\ Len(result) = Cardinality(Positions(all, P))
    /\ \A k \in 1..Len(result) : result[k] = all[Nth(Positions(all, P), k)]

\* The requests of a list are in the order they were created in.
OldestFirst(result) ==
    \A i, j \in 1..Len(result) :
        i < j => LeaveNumber(result[i].leave_id) < LeaveNumber(result[j].leave_id)

\* C15: list_pending_leaves returns exactly the stored requests whose status is
\* pending, and list_employee_leaves(e) exactly the stored requests of employee
\* e whatever their status; both lists are in creation order, also after
\* requests in them or between them have changed status.
C15_ListsFilterInOrder ==
    /\ Succeeded(last, "list_pending_leaves")
       => /\ IsFilterInOrder(last.ret[1], Stored, LAMBDA l : l.status = "pending")
          /\ OldestFirst(last.ret[1])
    /\ Succeeded(last, "list_employee_leaves")
       => /\ IsFilterInOrder(last.ret[1], Stored,
                             LAMBDA l : l.employee_id = upper(last.args[1]))
          /\ OldestFirst(last.ret[1])
          /\ OldestFirst(Stored)

\* list_employee_leaves has returned two requests of one employee, the older of
\* them no longer pending, the newer still pending.
C15_Witness ==
    /\ Succeeded(last, "list_employee_leaves")
    /\ Len(last.ret[1]) = 2
    /\ last.ret[1][1].status = "approved"
    /\ last.ret[1][2].status = "pending"
    /\ get_pending_leaves(Current) = <<last.ret[1][2]>>

\* a is an earlier calendar date than b.
Earlier(a, b) ==
    \/ a[1] < b[1]
    \/ a[1] = b[1] /\ a[2] < b[2]
    \/ a[1] = b[1] /\ a[2] = b[2] /\ a[3] < b[3]

\* The calendar date after dt.
NextDay(dt) ==
    IF dt[3] < DaysInMonth(dt[1], dt[2]) THEN <<dt[1], dt[2], dt[3] + 1>>
    ELSE IF dt[2] < 12 THEN <<dt[1], dt[2] + 1, 1>>
    ELSE <<dt[1] + 1, 1, 1>>

\* The number of calendar dates from a to b, both counted, found by walking the
\* calendar; 0 if b is earlier than a.
RECURSIVE DaysWalked(_, _)
DaysWalked(a, b) ==
    IF Earlier(b, a) THEN 0
    ELSE IF a = b THEN 1
    ELSE 1 + DaysWalked(NextDay(a), b)

C17_RejectionReason ==
    /\ \A i \in 1..Len(Stored) :
          Stored[i].rejection_reason # None => Stored[i].status = "rejected"
    /\ Succeeded(last, "reject_leave")
       => /\ RecordOf(Current, last.args[1]).status = "rejected"
          /\ RecordOf(Current, last.args[1]).rejection_reason = Some(last.args[2])
          /\ last.ret[1].rejection_reason = Some(last.args[2])

\* A reject has just succeeded while another stored request, approved and then
\* cancelled, carries no reason.
C17_Witness ==
    /\ Succeeded(last, "reject_leave")
    /\ Len(Stored) = 2
    /\ \E i \in 1..2 : Stored[i].status = "cancelled" /\ Stored[i].rejection_reason = None
    /\ RecordOf(Current, last.args[1]).rejection_reason = Some("project deadline")

\* The fields of a request that are set when it is created.
CreationFields(record) ==
    [leave_id |-> record.leave_id, employee_id |-> record.employee_id,
     leave_type |-> record.leave_type, start_date |-> record.start_date,
     end_date |-> record.end_date, days |-> record.days, reason |-> record.reason]

\* The status a tool's transition leads to.
TargetStatus(op) ==
    CASE op = "approve_leave" -> "approved"
      [] op = "reject_leave" -> "rejected"
      [] op = "cancel_leave" -> "cancelled"

\* C18: in every step every stored request stays stored at its place with the
\* leave_id, employee_id, leave_type, start_date, end_date, days and reason it
\* was created with; an approve, reject or cancel that succeeds changes, of the
\* request it names, only the status (and, for reject, the rejection reason),
\* stores no new request, and leaves every other stored request as it was.
C18_CreationFieldsFixed ==
    [][/\ Len(LEAVES') >= Len(LEAVES)
       /\ \A i \in 1..Len(LEAVES) :
             /\ LEAVES'[i][1] = LEAVES[i][1]
             /\ CreationFields(LEAVES'[i][2]) = CreationFields(LEAVES[i][2])
       /\ \A l \in {last'} :
             (l.op \in TransitionTools /\ l.err = None)
             => /\ Len(LEAVES') = Len(LEAVES)
                /\ \A i \in 1..Len(LEAVES) :
                      IF LEAVES[i][1] = upper(l.args[1])
                      THEN LEAVES'[i][2] =
                               [LEAVES[i][2] EXCEPT
                                   !.status = TargetStatus(l.op),
                                   !.rejection_reason =
                                       IF l.op = "reject_leave" THEN Some(l.args[2]) ELSE @]
                      ELSE LEAVES'[i] = LEAVES[i]]_vars

\* An approved request has just been cancelled while a second request, which
\* had been rejected, is stored.
C18_Witness ==
    /\ Succeeded(last, "cancel_leave")
    /\ last.was_approved
    /\ Len(Stored) = 2
    /\ \E i \in 1..2 : Stored[i].status = "rejected" /\ Stored[i].leave_id # upper(last.args[1])
    /\ RecordOf(Current, last.args[1]).days = 4

\* The days of the first n stored requests of employee e and leave type t whose
\* status is approved, added up.
RECURSIVE ApprovedDays(_, _, _)
ApprovedDays(e, t, n) ==
    IF n = 0 THEN 0
    ELSE ApprovedDays(e, t, n - 1)
         + (IF /\ Stored[n].employee_id = e
               /\ Stored[n].leave_type = t
               /\ Stored[n].status = "approved"
            THEN Stored[n].days ELSE 0)

\* C19: in every reachable state, for every employee e and leave type t, the
\* balance of (e, t) is its initial balance minus the days of all stored
\* requests of (e, t) that are approved.
C19_LedgerConservation ==
    \A e \in DOMAIN EMPLOYEES : \A t \in VALID_LEAVE_TYPES :
        leave_balance[e][t] = InitialBalance[e][t] - ApprovedDays(e, t, Len(Stored))

\* Two four-day paternity requests of E001 are both approved (the balance is
\* 5 - 8), the second by the call that has just returned.
C19_Witness ==
    /\ Len(Stored) = 2
    /\ \A i \in 1..2 : /\ Stored[i].status = "approved"
                       /\ Stored[i].employee_id = E001
                       /\ Stored[i].leave_type = paternity
                       /\ Stored[i].days = 4
    /\ leave_balance[E001][paternity] = 0 - 3
    /\ Succeeded(last, "approve_leave")

\* What the transition tool op does to store S when called for leave_id (and,
\* for reject_leave, with the one rejection reason).
Transition(S, op, leave_id) ==
    CASE op = "approve_leave" -> approve_leave_record(S, leave_id)
      [] op = "reject_leave" ->
             reject_leave_record(S, leave_id, CHOOSE rr \in RejectionReasonInputs : TRUE)
      [] op = "cancel_leave" -> cancel_leave_record(S, leave_id)

\* Calling a for r1 and then b for r2 gives the same two outcomes and the same
\* store as calling b for r2 and then a for r1.
Commute(S, a, r1, b, r2) ==
    \A a1 \in {Transition(S, a, r1)}, b1 \in {Transition(S, b, r2)} :
        \A b2 \in {Transition(a1.store, b, r2)}, a2 \in {Transition(b1.store, a, r1)} :
            /\ b2.store = a2.store
            /\ a1.err = a2.err
            /\ a1.ret = a2.ret
            /\ b1.err = b2.err
            /\ b1.ret = b2.ret

\* C20: in every reachable state, for any two different stored requests r1 and
\* r2 (r2 named in lower case) and any transitions a and b (approve, reject,
\* cancel, legal or not), a on r1 followed by b on r2 and b on r2 followed by
\* a on r1 give each call the same outcome and end in the same records and
\* balances. The two orders are compared from the store a list_pending_leaves
\* call has just returned in: that call can follow any call and changes
\* nothing, so every reachable store is compared.
C20_DistinctRequestsCommute ==
    Succeeded(last, "list_pending_leaves")
    => \A i, j \in 1..Len(Stored) :
           i < j => \A a, b \in TransitionTools :
                        Commute(Current, a, Stored[i].leave_id, b,
                                lower(Stored[j].leave_id))

\* Two pending four-day paternity requests of E001 are stored with a balance of
\* 5: approving both, in either order, succeeds twice and ends at the same
\* balance.
C20_Witness ==
    /\ Succeeded(last, "list_pending_leaves")
    /\ Len(Stored) = 2
    /\ \A i \in 1..2 : /\ Stored[i].status = "pending"
                       /\ Stored[i].employee_id = E001
                       /\ Stored[i].leave_type = paternity
                       /\ Stored[i].days = 4
    /\ leave_balance[E001][paternity] = 5
    /\ \E x \in {Transition(Current, "approve_leave", Stored[1].leave_id)} :
          /\ x.err = None
          /\ \E y \in {Transition(x.store, "approve_leave", Stored[2].leave_id)} :
                /\ y.err = None
                /\ y.store.leave_balance[E001][paternity] = 0 - 3

\* C21: in every reachable state the counter is the number of stored requests
\* plus one (a refused submission has taken no id), the i-th stored request
\* carries the number i, so the ids are L001, L002, ... without a gap, and every
\* request is stored under the key that is its own leave_id.
C21_CounterGapFree ==
    /\ _leave_counter = Len(LEAVES) + 1
    /\ \A i \in 1..Len(LEAVES) :
          /\ LeaveNumber(LEAVES[i][2].leave_id) = i
          /\ LEAVES[i][2].leave_id[1] = "L"
          /\ Len(LEAVES[i][2].leave_id) = 4
          /\ LEAVES[i][1] = LEAVES[i][2].leave_id
    /\ {LeaveNumber(LEAVES[i][2].leave_id) : i \in 1..Len(LEAVES)} = 1..Len(LEAVES)
    /\ Len(LEAVES) >= 1 => LEAVES[1][1] = <<"L", "0", "0", "1">>
    /\ Len(LEAVES) >= 2 => LEAVES[2][1] = <<"L", "0", "0", "2">>

\* A submission has just been refused for its balance while one request, by now
\* cancelled, is stored: the counter still stands at 2.
C21_Witness ==
    /\ Failed(last, "apply_leave")
    /\ ErrorKind(last.err[1]) = "InsufficientBalance"
    /\ Len(LEAVES) = 1
    /\ _leave_counter = 2
    /\ LEAVES[1][2].status = "cancelled"

====
